---- MODULE Spec2Model ----
(***************************************************************************)
(* Model of the spdlog-rs formatting core and crash-flush guarantee.       *)
(*                                                                         *)
(*   - BasicFormatter::format and its LocalTimeCacher                      *)
(*     (src/src/formatter/basic_formatter.rs)                              *)
(*   - the crash scenario of spdlog/tests/crash.rs together with the       *)
(*     crash-safety subsystem it exercises                                 *)
(*                                                                         *)
(* Text is modelled as a sequence of one-character strings.  A UTC instant *)
(* is [days, sod, nanos]: days since 1970-01-01, second of the day and the *)
(* nanosecond field (>= 1_000_000_000 inside a leap second), which is how  *)
(* chrono stores it.  The i64 of DateTime::timestamp() is days*86400+sod;  *)
(* it is kept as the pair <<days, sod>> (a mixed-radix numeral of the same *)
(* value) so that instants beyond the 32-bit range stay representable.     *)
(***************************************************************************)
EXTENDS Integers, Sequences, FiniteSets, TLC

VARIABLES
    cache,        \* LocalTimeCacher.cache : Option<LocalTimeCache>
    lockHolder,   \* owner of BasicFormatter.local_time_cacher (spin::Mutex)
    pc,           \* per thread: position inside BasicFormatter::format
    rec,          \* per thread: the Record being formatted
    dest,         \* per thread: the caller-supplied StringBuf
    dest0,        \* per thread: content of dest when format was called
    time,         \* per thread: the local `time` of format (line 31)
    result,       \* per thread: what format returned
    found,        \* per thread: the cache as get found it, until format returns
    conv,         \* per thread: get did a UTC-to-local conversion, until format returns
    fault,        \* per thread: the write chosen to fail in this call
    ctx,          \* per thread: the PatternContext handed to Eol::format
    platform,     \* the build target, which fixes crate::EOL
    crashState,   \* crash-handler state: Uninstalled, Installed, Handling, Terminated
    hook,         \* the fatal-event disposition/hook currently registered
    prevHook,     \* the disposition remembered by the installation
    installs,     \* how often install has been called
    defaultLogger,\* whether a default logger is registered
    accepted,     \* records the default logger has accepted, in order
    buffered,     \* per sink: records accepted but not yet flushed
    written,      \* per sink: content of the sink's file
    hpc,          \* the process: run, flushing, terminating, dead
    todo,         \* sinks the crash-flush has still to flush
    cause,        \* the original fatal condition
    lastFatal,    \* the most recent fatal event
    exitCause,    \* the termination cause observed from outside
    fatalEvents,  \* fatal events so far
    flushStarts,  \* crash-flushes started so far
    reraises      \* re-raises of the fatal condition so far

fmtVars == <<cache, lockHolder, pc, rec, dest, dest0, time, result, found,
             conv, fault, ctx, platform>>
crashVars == <<crashState, hook, prevHook, installs, defaultLogger, accepted,
               buffered, written, hpc, todo, cause, lastFatal, exitCause,
               fatalEvents, flushStarts, reraises>>

-----------------------------------------------------------------------------
(* Bounds *)

\* threads sharing one formatter in the concurrent specification
NumThreads == 2
\* a failing write! leaves at most this many characters of its segment
MaxCut == 2
\* sinks of the default logger
NumSinks == 2
\* records logged before the crash
MaxLog == 2
\* install calls that are counted
MaxInstalls == 2
\* fatal events, crash-flush starts and re-raises that are counted
MaxFatal == 4

-----------------------------------------------------------------------------
(* Option values *)

None == [some |-> FALSE, val |-> <<>>]
Some(v) == [some |-> TRUE, val |-> v]

NoThread == 0

Min(a, b) == IF a < b THEN a ELSE b

-----------------------------------------------------------------------------
(* Number formatting of core::fmt, as used by the format strings *)

DigitChars == <<"0", "1", "2", "3", "4", "5", "6", "7", "8", "9">>

RECURSIVE FmtUnsigned(_)
\* "{}" of an unsigned integer: decimal digits, no padding
FmtUnsigned(n) ==
    IF n < 10 THEN <<DigitChars[n + 1]>>
    ELSE FmtUnsigned(n \div 10) \o <<DigitChars[(n % 10) + 1]>>

\* "{}" of an i32 (time.year)
FmtSigned(n) ==
    IF n < 0 THEN <<"-">> \o FmtUnsigned(0 - n) ELSE FmtUnsigned(n)

RECURSIVE ZeroPad(_, _)
ZeroPad(s, w) == IF Len(s) >= w THEN s ELSE ZeroPad(<<"0">> \o s, w)

\* a width that is ignored
FmtPaddedNot(n, w) == FmtUnsigned(n)

\* "{:0w}" of a u32: zero padded to a minimum width, never truncated
FmtPadded(n, w) == ZeroPad(FmtUnsigned(n), w)

-----------------------------------------------------------------------------
(* chrono: UTC instants, the Local time zone, calendar fields *)

SecsPerDay == 86400

\* DateTime<Utc>::timestamp(): whole seconds since the epoch
timestamp(utc_time) == <<utc_time.days, utc_time.sod>>

\* DateTime<Utc>::nanosecond()
nanosecond(date_time) == date_time.nanos

\* The Local zone of the model: UTC+1 with daylight saving time (UTC+2)
\* from 2021-03-28 01:00:00 UTC on; the offset is a function of the instant.
DstStartDay == 18714
DstStartSod == 3600
DstEndDay == 18930
LocalOffset(utc_time) ==
    IF /\ \/ utc_time.days > DstStartDay
          \/ utc_time.days = DstStartDay /\ utc_time.sod >= DstStartSod
       /\ utc_time.days < DstEndDay
    THEN 7200 ELSE 3600

\* Into::<DateTime<Local>>::into(utc_time): the local wall-clock reading
ToLocal(utc_time) ==
    LET total == utc_time.sod + LocalOffset(utc_time)
    IN  [days  |-> utc_time.days + (total \div SecsPerDay),
         sod   |-> total % SecsPerDay,
         nanos |-> utc_time.nanos]

\* Datelike::year/month/day of a day number (proleptic Gregorian)
CivilFromDays(days) ==
    LET z   == days + 719468
        era == z \div 146097
        doe == z - era * 146097
        yoe == (doe - (doe \div 1460) + (doe \div 36524) - (doe \div 146096)) \div 365
        doy == doe - (365 * yoe + (yoe \div 4) - (yoe \div 100))
        mp  == (5 * doy + 2) \div 153
        d   == doy - ((153 * mp + 2) \div 5) + 1
        m   == IF mp < 10 THEN mp + 3 ELSE mp - 9
        y   == yoe + era * 400 + (IF m <= 2 THEN 1 ELSE 0)
    IN  [year |-> y, month |-> m, day |-> d]

\* a conversion that forgets the leap-second representation
nanosecond_to_millisecondNoWrap(ns) == ns \div 1000000

\* Time::nanosecond_to_millisecond
nanosecond_to_millisecond(ns) == (ns % 1000000000) \div 1000000

\* impl From<DateTime<T>> for Time
TimeFrom(date_time) ==
    LET ymd == CivilFromDays(date_time.days)
    IN  [year        |-> ymd.year,
         month       |-> ymd.month,
         day         |-> ymd.day,
         hour        |-> date_time.sod \div 3600,
         minute      |-> (date_time.sod % 3600) \div 60,
         second      |-> date_time.sod % 60,
         millisecond |-> nanosecond_to_millisecond(nanosecond(date_time))]

\* a patch that carries a leap second into the second field
set_millisecond_carrying(t, ns) ==
    [t EXCEPT !.millisecond = nanosecond_to_millisecond(ns),
              !.second = @ + (ns \div 1000000000)]

\* Time::set_millisecond_from_nanosecond
set_millisecond_from_nanosecond(t, ns) ==
    [t EXCEPT !.millisecond = nanosecond_to_millisecond(ns)]

-----------------------------------------------------------------------------
(* LocalTimeCacher *)

\* LocalTimeCacher::cache
LocalTimeCacher_cache(utc_time) ==
    [last_secs  |-> timestamp(utc_time),
     local_time |-> TimeFrom(ToLocal(utc_time))]

\* a cache that is never refreshed once it is populated
GetUpdateStale(c, utc_time) ==
    IF ~c.some THEN Some(LocalTimeCacher_cache(utc_time))
    ELSE Some([c.val EXCEPT !.local_time =
                 set_millisecond_from_nanosecond(@, nanosecond(utc_time))])

\* a get that recomputes only when the clock has moved forward
GetUpdateForwardOnly(c, utc_time) ==
    IF ~c.some THEN Some(LocalTimeCacher_cache(utc_time))
    ELSE LET secs == timestamp(utc_time)
         IN  IF \/ c.val.last_secs[1] < secs[1]
                \/ c.val.last_secs[1] = secs[1] /\ c.val.last_secs[2] < secs[2]
             THEN Some(LocalTimeCacher_cache(utc_time))
             ELSE Some([c.val EXCEPT !.local_time =
                          set_millisecond_from_nanosecond(@, nanosecond(utc_time))])

\* LocalTimeCacher::get, the match statement: the cache after the call
GetUpdate(c, utc_time) ==
    IF ~c.some THEN Some(LocalTimeCacher_cache(utc_time))
    ELSE LET secs == timestamp(utc_time)
         IN  IF c.val.last_secs # secs
             THEN Some(LocalTimeCacher_cache(utc_time))
             ELSE Some([c.val EXCEPT !.local_time =
                          set_millisecond_from_nanosecond(@, nanosecond(utc_time))])

\* LocalTimeCacher::get: whether the call runs Self::cache, that is the
\* UTC-to-local conversion (lines 93 and 98)
GetConverts(c, utc_time) ==
    IF ~c.some THEN TRUE ELSE c.val.last_secs # timestamp(utc_time)

\* LocalTimeCacher::get, its last line: the clone handed to the caller
GetClone(c) == c.val.local_time

-----------------------------------------------------------------------------
(* Records *)

\* impl Display for Level
LevelText(level) ==
    CASE level = "Warn" -> <<"w", "a", "r", "n">>
      [] level = "Info" -> <<"i", "n", "f", "o">>

Levels == {"Warn", "Info"}

\* record.time(): instants exercising same second, later and earlier second,
\* a leap second at a year boundary, the daylight-saving switch, a time
\* before the epoch
T_a    == [days |-> 18984, sod |-> 1425,  nanos |-> 67000000]
T_b    == [days |-> 18984, sod |-> 1425,  nanos |-> 500999999]
T_c    == [days |-> 18984, sod |-> 1426,  nanos |-> 0]
T_leap == [days |-> 18992, sod |-> 86399, nanos |-> 1500000000]
T_std  == [days |-> 18714, sod |-> 3599,  nanos |-> 999999999]
T_dst  == [days |-> 18714, sod |-> 3600,  nanos |-> 1000000]
T_old  == [days |-> 0 - 1, sod |-> 86399, nanos |-> 999000000]
\* years that do not have four digits: 0999-06-15 and 10000-01-01
T_early == [days |-> 0 - 354485, sod |-> 43200, nanos |-> 5000000]
T_far   == [days |-> 2932897, sod |-> 0, nanos |-> 123456789]

Times == {T_a, T_b, T_c, T_leap, T_std, T_dst, T_old, T_early, T_far}
TimesConc == {T_a, T_b, T_c}

LoggerNames == {None, Some(<<"L">>)}
SourceLocations == {None, Some([file_name |-> <<"m", ".", "r", "s">>, line |-> 17])}
Payloads == {<<>>, <<"h", "i">>}
Buffers == {<<>>, <<"x", "[">>}

Records ==
    [time : Times, logger_name : LoggerNames, level : Levels,
     source_location : SourceLocations, payload : Payloads]

RecordsConc ==
    [time : TimesConc, logger_name : {None}, level : {"Warn"},
     source_location : {None}, payload : {<<"h", "i">>}]

NoRecord ==
    [time |-> T_a, logger_name |-> None, level |-> "Warn",
     source_location |-> None, payload |-> <<>>]
NoTime == TimeFrom([days |-> 0, sod |-> 0, nanos |-> 0])

\* records and pattern contexts handed to Eol::format, which uses neither
RecordsEol ==
    [time : {T_a}, logger_name : LoggerNames, level : Levels,
     source_location : {None}, payload : Payloads]
Contexts == {"ctx_a", "ctx_b"}
NoContext == "ctx_a"

\* the build targets
Platforms == {"unix", "windows"}

\* a line terminator that ignores the target
EOLAnyTarget(target) == <<"\n">>

\* crate::EOL
EOL(target) == IF target = "windows" THEN <<"\r", "\n">> ELSE <<"\n">>

-----------------------------------------------------------------------------
(* BasicFormatter::format *)

NoResult == [kind |-> "none", begin |-> 0, end |-> 0]
Err == [kind |-> "err", begin |-> 0, end |-> 0]
Ok(b, e) == [kind |-> "ok", begin |-> b, end |-> e]
\* Ok(()) of Eol::format
OkUnit == [kind |-> "unit", begin |-> 0, end |-> 0]

\* the choice of the write that fails in a call: at = 0 for none, 1..5 for
\* the write! statements of BasicFormatter::format in source order, 6 for
\* the write_str of Eol::format; cut = the characters it still pushed
NoFault == [at |-> 0, cut |-> 0]
Faults(failures) ==
    {NoFault} \cup [at : failures \ {0}, cut : 0..MaxCut]

\* the text of the first write!: "[{}-{:02}-{:02} {:02}:{:02}:{:02}.{:03}] ["
TimestampSegment(t) ==
    <<"[">> \o FmtSigned(t.year) \o <<"-">> \o FmtPadded(t.month, 2)
        \o <<"-">> \o FmtPadded(t.day, 2) \o <<" ">> \o FmtPadded(t.hour, 2)
        \o <<":">> \o FmtPadded(t.minute, 2) \o <<":">> \o FmtPadded(t.second, 2)
        \o <<".">> \o FmtPadded(t.millisecond, 3) \o <<"]", " ", "[">>

\* a logger-name segment that does not open the next bracket
LoggerNameSegmentUnopened(logger_name) == logger_name \o <<"]", " ">>

\* "{}] [" of the logger name
LoggerNameSegment(logger_name) == logger_name \o <<"]", " ", "[">>

\* "] [{}:{}" of the source location
SourceLocationSegment(srcloc) ==
    <<"]", " ", "[">> \o srcloc.file_name \o <<":">> \o FmtUnsigned(srcloc.line)

\* a payload segment closed by a line feed
PayloadSegmentLine(payload) == <<"]", " ">> \o payload \o <<"\n">>

\* "] {}" of the payload
PayloadSegment(payload) == <<"]", " ">> \o payload

\* a style offset that assumes an empty buffer and no logger name
DestLenAssumed(d) == 27

\* dest.len()
DestLen(d) == Len(d)

\* a write whose error is swallowed
WriteStmtSwallowed(d, seg, fails, cut) ==
    IF fails
    THEN [dest |-> d \o SubSeq(seg, 1, Min(cut, Len(seg) - 1)), ok |-> TRUE]
    ELSE [dest |-> d \o seg, ok |-> TRUE]

\* a write that clears the buffer when it fails
WriteStmtRewinding(d, seg, fails, cut) ==
    IF fails
    THEN [dest |-> <<>>, ok |-> FALSE]
    ELSE [dest |-> d \o seg, ok |-> TRUE]

\* One write!(dest, ...)? statement.  When the write fails, the pieces
\* already pushed stay in dest (cut characters, fewer than the segment) and
\* the ? operator returns the error.
WriteStmt(d, seg, fails, cut) ==
    IF fails
    THEN [dest |-> d \o SubSeq(seg, 1, Min(cut, Len(seg) - 1)), ok |-> FALSE]
    ELSE [dest |-> d \o seg, ok |-> TRUE]

\* Lines 33-64.  failAt names the write! statement (1..5 in source order)
\* that fails in this call, 0 for none.
FormatBody(record, t, d, failAt, cut) ==
    LET w1 == WriteStmt(d, TimestampSegment(t), failAt = 1, cut)
        w2 == IF record.logger_name.some
              THEN WriteStmt(w1.dest, LoggerNameSegment(record.logger_name.val),
                             failAt = 2, cut)
              ELSE w1
        style_range_begin == DestLen(w2.dest)
        w3 == WriteStmt(w2.dest, LevelText(record.level), failAt = 3, cut)
        style_range_end == DestLen(w3.dest)
        w4 == IF record.source_location.some
              THEN WriteStmt(w3.dest, SourceLocationSegment(record.source_location.val),
                             failAt = 4, cut)
              ELSE w3
        w5 == WriteStmt(w4.dest, PayloadSegment(record.payload), failAt = 5, cut)
    IN  IF ~w1.ok THEN [dest |-> w1.dest, result |-> Err]
        ELSE IF ~w2.ok THEN [dest |-> w2.dest, result |-> Err]
        ELSE IF ~w3.ok THEN [dest |-> w3.dest, result |-> Err]
        ELSE IF ~w4.ok THEN [dest |-> w4.dest, result |-> Err]
        ELSE IF ~w5.ok THEN [dest |-> w5.dest, result |-> Err]
        ELSE [dest |-> w5.dest, result |-> Ok(style_range_begin, style_range_end)]

\* a guard that outlives the statement that took it
GuardKept(holder) == holder

\* the MutexGuard temporary of line 31 is dropped at the end of the statement
GuardDropped(holder) == NoThread

\* a lock that excludes nobody
LockFreeAlways(holder) == TRUE

\* spin::Mutex::lock may take the lock
LockFree(holder) == holder = NoThread

\* a caller invokes formatter.format(&record, &mut buf)
Call(t, records, buffers) ==
    /\ pc[t] \in {"idle", "done", "eol_done"}
    /\ \E r \in records, b \in buffers :
          /\ rec' = [rec EXCEPT ![t] = r]
          /\ dest' = [dest EXCEPT ![t] = b]
          /\ dest0' = [dest0 EXCEPT ![t] = b]
    /\ result' = [result EXCEPT ![t] = NoResult]
    /\ time' = [time EXCEPT ![t] = NoTime]
    /\ pc' = [pc EXCEPT ![t] = "lock"]
    /\ found' = [found EXCEPT ![t] = None]
    /\ conv' = [conv EXCEPT ![t] = FALSE]
    /\ fault' = [fault EXCEPT ![t] = NoFault]
    /\ ctx' = [ctx EXCEPT ![t] = NoContext]
    /\ UNCHANGED <<cache, lockHolder, platform, crashVars>>

\* line 31: self.local_time_cacher.lock()
Lock(t) ==
    /\ pc[t] = "lock"
    /\ LockFree(lockHolder)
    /\ lockHolder' = t
    /\ pc' = [pc EXCEPT ![t] = "get"]
    /\ UNCHANGED <<cache, rec, dest, dest0, time, result, found, conv, fault,
                   ctx, platform, crashVars>>

\* line 31: .get(record.time()), lines 92-108
Get(t) ==
    /\ pc[t] = "get"
    /\ cache' = GetUpdate(cache, rec[t].time)
    /\ pc' = [pc EXCEPT ![t] = "clone"]
    /\ found' = [found EXCEPT ![t] = cache]
    /\ conv' = [conv EXCEPT ![t] = GetConverts(cache, rec[t].time)]
    /\ UNCHANGED <<lockHolder, rec, dest, dest0, time, result, fault, ctx,
                   platform, crashVars>>

\* line 110 and the end of line 31: the clone is returned, the guard dropped
CloneUnlock(t) ==
    /\ pc[t] = "clone"
    /\ time' = [time EXCEPT ![t] = GetClone(cache)]
    /\ lockHolder' = GuardDropped(lockHolder)
    /\ pc' = [pc EXCEPT ![t] = "write"]
    /\ UNCHANGED <<cache, rec, dest, dest0, result, found, conv, fault, ctx,
                   platform, crashVars>>

\* lines 33-64: the writes into the caller's buffer and the return; failures
\* names the write! statements that may fail in this call (0: none does)
Write(t, failures) ==
    /\ pc[t] = "write"
    /\ \E f \in Faults(failures) :
          LET out == FormatBody(rec[t], time[t], dest[t], f.at, f.cut)
          IN  /\ dest' = [dest EXCEPT ![t] = out.dest]
              /\ result' = [result EXCEPT ![t] = out.result]
              /\ fault' = [fault EXCEPT ![t] = f]
    /\ pc' = [pc EXCEPT ![t] = "done"]
    /\ found' = [found EXCEPT ![t] = None]
    /\ conv' = [conv EXCEPT ![t] = FALSE]
    /\ UNCHANGED <<cache, lockHolder, rec, dest0, time, ctx, platform, crashVars>>

\* a caller invokes Eol.format(&record, &mut buf, &mut ctx)
EolCall(t, records, buffers) ==
    /\ pc[t] \in {"idle", "done", "eol_done"}
    /\ \E r \in records, b \in buffers, c \in Contexts :
          /\ rec' = [rec EXCEPT ![t] = r]
          /\ dest' = [dest EXCEPT ![t] = b]
          /\ dest0' = [dest0 EXCEPT ![t] = b]
          /\ ctx' = [ctx EXCEPT ![t] = c]
    /\ result' = [result EXCEPT ![t] = NoResult]
    /\ time' = [time EXCEPT ![t] = NoTime]
    /\ pc' = [pc EXCEPT ![t] = "eol"]
    /\ found' = [found EXCEPT ![t] = None]
    /\ conv' = [conv EXCEPT ![t] = FALSE]
    /\ fault' = [fault EXCEPT ![t] = NoFault]
    /\ UNCHANGED <<cache, lockHolder, platform, crashVars>>

\* Eol::format: dest.write_str(crate::EOL).map_err(Error::FormatRecord)
EolFormat(t) ==
    /\ pc[t] = "eol"
    /\ \E f \in Faults({0, 6}) :
          LET out == WriteStmt(dest[t], EOL(platform), f.at = 6, f.cut)
          IN  /\ dest' = [dest EXCEPT ![t] = out.dest]
              /\ result' = [result EXCEPT ![t] = IF out.ok THEN OkUnit ELSE Err]
              /\ fault' = [fault EXCEPT ![t] = f]
    /\ pc' = [pc EXCEPT ![t] = "eol_done"]
    /\ UNCHANGED <<cache, lockHolder, rec, dest0, time, found, conv, ctx,
                   platform, crashVars>>


-----------------------------------------------------------------------------
(* Crash-safe flush: the scenario of tests/crash.rs and the subsystem *)

\* enum CrashType
CrashTypes == {"Panic", "NullPtrDeref", "CAbort"}
NoCause == "none"

Sinks == 1..NumSinks

\* spdlog::info!("hello")
Hello == <<"h", "e", "l", "l", "o">>

\* the disposition/hook in place before anything is installed
OrigHook == "default"
CrashHook == "crash_handler"

\* a counter that stops counting at its bound
Bump(n, max) == IF n < max THEN n + 1 ELSE n

\* an installation that forgets it has already run
InstallEffectRepeated(state, h, prev) ==
    [state |-> "Installed", hook |-> CrashHook, prevHook |-> Some(h)]

\* install: one-time; chains the hook ahead of the previous one and
\* remembers the previous disposition
InstallEffect(state, h, prev) ==
    IF state = "Uninstalled"
    THEN [state |-> "Installed", hook |-> CrashHook, prevHook |-> Some(h)]
    ELSE [state |-> state, hook |-> h, prevHook |-> prev]

\* an explicit (repeated) installation of the crash-safety subsystem
Install ==
    /\ hpc = "run"
    /\ LET e == InstallEffect(crashState, hook, prevHook)
       IN  /\ crashState' = e.state
           /\ hook' = e.hook
           /\ prevHook' = e.prevHook
    /\ installs' = Bump(installs, MaxInstalls)
    /\ UNCHANGED <<defaultLogger, accepted, buffered, written, hpc, todo, cause,
                   lastFatal, exitCause, fatalEvents, flushStarts, reraises>>
    /\ UNCHANGED fmtVars

\* setup_global_logger: file sinks built with truncate(true), a logger over
\* them, spdlog::set_default_logger.  The test calls nothing else before it
\* logs and crashes, so registering the default logger is what puts the
\* crash hooks in place.
setup_global_logger ==
    /\ hpc = "run"
    /\ ~defaultLogger
    /\ defaultLogger' = TRUE
    /\ buffered' = [s \in Sinks |-> <<>>]
    /\ written' = [s \in Sinks |-> <<>>]
    /\ LET e == InstallEffect(crashState, hook, prevHook)
       IN  /\ crashState' = e.state
           /\ hook' = e.hook
           /\ prevHook' = e.prevHook
    /\ installs' = Bump(installs, MaxInstalls)
    /\ UNCHANGED <<accepted, hpc, todo, cause, lastFatal, exitCause,
                   fatalEvents, flushStarts, reraises>>
    /\ UNCHANGED fmtVars

\* spdlog::info!("hello"): the default logger accepts the record and
\* forwards it to every sink, which buffers it
LogInfo ==
    /\ hpc = "run"
    /\ defaultLogger
    /\ Len(accepted) < MaxLog
    /\ accepted' = Append(accepted, Hello)
    /\ buffered' = [s \in Sinks |-> Append(buffered[s], Hello)]
    /\ UNCHANGED <<crashState, hook, prevHook, installs, defaultLogger, written,
                   hpc, todo, cause, lastFatal, exitCause, fatalEvents,
                   flushStarts, reraises>>
    /\ UNCHANGED fmtVars

\* a handler that flushes again on every fatal event
HandlerEntryReentrant(state) == "flushing"

\* the reentrancy guard at the entry of the crash handler: where the
\* handler goes, given the crash-handler state it finds
HandlerEntry(state) ==
    IF state = "Handling" THEN "terminating" ELSE "flushing"

\* a re-raise of whatever fatal event came last
ReraisedCauseLast(orig, last) == last

\* the condition re-triggered at the end: the original one
ReraisedCause(orig, last) == orig

\* the match on crash_type: a panic, a null read, abort(), met while the
\* program runs
Crash(c) ==
    /\ hpc = "run"
    /\ cause' = c
    /\ lastFatal' = c
    /\ fatalEvents' = Bump(fatalEvents, MaxFatal)
    /\ IF hook = CrashHook
       THEN /\ crashState' = "Handling"
            /\ hpc' = HandlerEntry(crashState)
            /\ flushStarts' = Bump(flushStarts, MaxFatal)
            /\ todo' = IF defaultLogger THEN Sinks ELSE {}
            /\ UNCHANGED exitCause
       ELSE /\ hpc' = "dead"
            /\ exitCause' = c
            /\ UNCHANGED <<crashState, flushStarts, todo>>
    /\ UNCHANGED <<hook, prevHook, installs, defaultLogger, accepted, buffered,
                   written, reraises>>
    /\ UNCHANGED fmtVars

\* a sink that loses its buffer when it is flushed
FlushedFileLossy(file, buf) == file

\* Sink::flush: what was buffered reaches the file
FlushedFile(file, buf) == file \o buf

\* the crash-flush cascades to one more sink
FlushSink(s) ==
    /\ hpc = "flushing"
    /\ s \in todo
    /\ written' = [written EXCEPT ![s] = FlushedFile(written[s], buffered[s])]
    /\ buffered' = [buffered EXCEPT ![s] = <<>>]
    /\ todo' = todo \ {s}
    /\ UNCHANGED <<crashState, hook, prevHook, installs, defaultLogger, accepted,
                   hpc, cause, lastFatal, exitCause, fatalEvents, flushStarts,
                   reraises>>
    /\ UNCHANGED fmtVars

\* the crash-flush has been through every sink
FlushDone ==
    /\ hpc = "flushing"
    /\ todo = {}
    /\ hpc' = "terminating"
    /\ UNCHANGED <<crashState, hook, prevHook, installs, defaultLogger, accepted,
                   buffered, written, todo, cause, lastFatal, exitCause,
                   fatalEvents, flushStarts, reraises>>
    /\ UNCHANGED fmtVars

\* a fatal event raised while the handler runs (the flush itself faults, or
\* a further fault on the way out)
NestedFault(c) ==
    /\ hpc \in {"flushing", "terminating"}
    /\ hook = CrashHook
    /\ lastFatal' = c
    /\ fatalEvents' = Bump(fatalEvents, MaxFatal)
    /\ hpc' = HandlerEntry(crashState)
    /\ IF HandlerEntry(crashState) = "flushing"
       THEN /\ flushStarts' = Bump(flushStarts, MaxFatal)
            /\ todo' = IF defaultLogger THEN Sinks ELSE {}
       ELSE UNCHANGED <<flushStarts, todo>>
    /\ UNCHANGED <<crashState, hook, prevHook, installs, defaultLogger, accepted,
                   buffered, written, cause, exitCause, reraises>>
    /\ UNCHANGED fmtVars

\* the handler restores the remembered disposition and re-triggers the
\* termination path; the process is gone
RestoreAndReraise ==
    /\ hpc = "terminating"
    /\ hook' = prevHook.val
    /\ exitCause' = ReraisedCause(cause, lastFatal)
    /\ reraises' = Bump(reraises, MaxFatal)
    /\ crashState' = "Terminated"
    /\ hpc' = "dead"
    /\ UNCHANGED <<prevHook, installs, defaultLogger, accepted, buffered,
                   written, todo, cause, lastFatal, fatalEvents, flushStarts>>
    /\ UNCHANGED fmtVars

-----------------------------------------------------------------------------
(* Specifications *)

vars == <<fmtVars, crashVars>>

InitCrashVars ==
    /\ crashState = "Uninstalled"
    /\ hook = OrigHook
    /\ prevHook = None
    /\ installs = 0
    /\ defaultLogger = FALSE
    /\ accepted = <<>>
    /\ buffered = [s \in Sinks |-> <<>>]
    /\ written = [s \in Sinks |-> <<>>]
    /\ hpc = "run"
    /\ todo = {}
    /\ cause = NoCause
    /\ lastFatal = NoCause
    /\ exitCause = NoCause
    /\ fatalEvents = 0
    /\ flushStarts = 0
    /\ reraises = 0

InitFmt(threads) ==
    /\ cache = None
    /\ lockHolder = NoThread
    /\ pc = [t \in threads |-> "idle"]
    /\ rec = [t \in threads |-> NoRecord]
    /\ dest = [t \in threads |-> <<>>]
    /\ dest0 = [t \in threads |-> <<>>]
    /\ time = [t \in threads |-> NoTime]
    /\ result = [t \in threads |-> NoResult]
    /\ found = [t \in threads |-> None]
    /\ conv = [t \in threads |-> FALSE]
    /\ fault = [t \in threads |-> NoFault]
    /\ ctx = [t \in threads |-> NoContext]

\* the target the program was built for
InitTarget(targets) == platform \in targets

\* one thread calling format again and again, every kind of record
InitSeq == InitFmt({1}) /\ InitTarget(Platforms) /\ InitCrashVars
NextSeq ==
    \/ Call(1, Records, Buffers)
    \/ Lock(1)
    \/ Get(1)
    \/ CloneUnlock(1)
    \/ Write(1, 0..5)
    \/ EolCall(1, RecordsEol, Buffers)
    \/ EolFormat(1)
SpecSeq == InitSeq /\ [][NextSeq]_vars

\* several threads sharing the formatter
Threads == 1..NumThreads
InitConc == InitFmt(Threads) /\ InitTarget({"unix"}) /\ InitCrashVars
NextConc ==
    \E t \in Threads :
        \/ Call(t, RecordsConc, {<<>>})
        \/ Lock(t)
        \/ Get(t)
        \/ CloneUnlock(t)
        \/ Write(t, {0, 1})
SpecConc == InitConc /\ [][NextConc]_vars

\* a process that installs, registers a logger, logs and crashes
InitCrash == InitFmt({1}) /\ InitTarget({"unix"}) /\ InitCrashVars
FlushSomeSink == \E s \in Sinks : FlushSink(s)
NextCrash ==
    \/ Install
    \/ setup_global_logger
    \/ LogInfo
    \/ \E c \in CrashTypes : Crash(c)
    \/ FlushSomeSink
    \/ FlushDone
    \/ \E c \in CrashTypes : NestedFault(c)
    \/ RestoreAndReraise
SpecCrash == InitCrash /\ [][NextCrash]_vars

\* the handler, once entered, keeps running: it is ordinary sequential code
\* of the crashing thread
LiveSpecCrash ==
    /\ SpecCrash
    /\ WF_vars(FlushSomeSink)
    /\ WF_vars(FlushDone)
    /\ WF_vars(RestoreAndReraise)

-----------------------------------------------------------------------------
(* Properties *)

EndsWith(s, suffix) ==
    /\ Len(s) >= Len(suffix)
    /\ SubSeq(s, Len(s) - Len(suffix) + 1, Len(s)) = suffix

\* what format appended to the caller's buffer
Appended(t) == SubSeq(dest[t], Len(dest0[t]) + 1, Len(dest[t]))

RECURSIVE Flatten(_)
Flatten(segs) == IF segs = <<>> THEN <<>> ELSE Head(segs) \o Flatten(Tail(segs))

RECURSIVE Count(_, _)
Count(s, ch) ==
    IF s = <<>> THEN 0 ELSE (IF Head(s) = ch THEN 1 ELSE 0) + Count(Tail(s), ch)

\* C1: in every sequence of format calls on one formatter, the time fields
\* a call obtains from the cache, and the timestamp text it writes, are
\* those of a full uncached UTC-to-local conversion of its own record's
\* timestamp.
C1_CacheNeverChangesOutput ==
    \A t \in DOMAIN pc :
        LET full == TimeFrom(ToLocal(rec[t].time))
        IN  /\ pc[t] \in {"write", "done"} => time[t] = full
            /\ result[t].kind = "ok" =>
                  SubSeq(Appended(t), 1, Len(TimestampSegment(full)))
                      = TimestampSegment(full)

\* a call served from the cache: the same second as the call before it,
\* another millisecond
C1_Witness ==
    /\ pc[1] = "write"
    /\ found[1].some
    /\ found[1].val.last_secs = timestamp(rec[1].time)
    /\ found[1].val.local_time.millisecond # time[1].millisecond

\* C7: with several threads formatting through one formatter, every call
\* that has left get holds the breakdown of its own record's timestamp, and
\* no two threads are inside get at once.
C7_OwnTimeUnderInterleaving ==
    /\ \A t \in DOMAIN pc :
          pc[t] \in {"write", "done"} => time[t] = TimeFrom(ToLocal(rec[t].time))
    /\ \A t, u \in DOMAIN pc :
          (t # u /\ pc[t] \in {"get", "clone"}) => pc[u] \notin {"get", "clone"}

\* two calls in flight for records of different seconds, one of which found
\* the other's second in the cache
C7_Witness ==
    \E t, u \in DOMAIN pc :
        /\ t # u
        /\ pc[t] = "write"
        /\ pc[u] = "write"
        /\ timestamp(rec[t].time) # timestamp(rec[u].time)
        /\ found[u].some
        /\ found[u].val.last_secs = timestamp(rec[t].time)

\* the segments of the fixed layout, in order; absent ones are empty
Layout(r, t) ==
    << TimestampSegment(t),
       IF r.logger_name.some THEN r.logger_name.val \o <<"]", " ", "[">> ELSE <<>>,
       LevelText(r.level),
       IF r.source_location.some
       THEN <<"]", " ", "[">> \o r.source_location.val.file_name \o <<":">>
                \o FmtUnsigned(r.source_location.val.line)
       ELSE <<>>,
       <<"]", " ">> \o r.payload >>

\* C8: a successful format appends the timestamp segment, the logger name
\* only if present, the level, the source location only if present, and the
\* payload, in this order; an absent segment opens no bracket.
C8_LayoutOrder ==
    \A t \in DOMAIN pc :
        result[t].kind = "ok" =>
            /\ Appended(t) = Flatten(Layout(rec[t], time[t]))
            /\ Count(Appended(t), "[") =
                  2 + (IF rec[t].logger_name.some THEN 1 ELSE 0)
                    + (IF rec[t].source_location.some THEN 1 ELSE 0)

\* a record with a logger name but without a source location
C8_Witness ==
    /\ pc[1] = "done"
    /\ result[1].kind = "ok"
    /\ rec[1].logger_name.some
    /\ ~rec[1].source_location.some
    /\ rec[1].payload # <<>>

\* C9 as stated: the output of a successful format ends with the line
\* terminator, "\n" or "\r\n".
C9_EndsWithEol ==
    \A t \in DOMAIN pc :
        result[t].kind = "ok" =>
            \/ EndsWith(dest[t], <<"\n">>)
            \/ EndsWith(dest[t], <<"\r", "\n">>)

\* C9 as amended: the output of a successful format ends with "] " and the
\* payload; nothing, in particular no line terminator, follows the payload.
C9_EndsWithPayload ==
    \A t \in DOMAIN pc :
        result[t].kind = "ok" =>
            /\ EndsWith(dest[t], <<"]", " ">> \o rec[t].payload)
            /\ ~EndsWith(rec[t].payload, <<"\n">>) => ~EndsWith(dest[t], <<"\n">>)

\* a formatted record with a payload
C9_Witness ==
    /\ pc[1] = "done"
    /\ result[1].kind = "ok"
    /\ rec[1].payload = <<"h", "i">>
    /\ rec[1].source_location.some

\* C10: the style range of a successful format lies inside the buffer as
\* the call left it and covers exactly the text of the level, whatever the
\* buffer held before and whichever optional segments are present.
C10_StyleRange ==
    \A t \in DOMAIN pc :
        result[t].kind = "ok" =>
            /\ result[t].begin <= result[t].end
            /\ result[t].end <= Len(dest[t])
            /\ SubSeq(dest[t], result[t].begin + 1, result[t].end)
                  = LevelText(rec[t].level)

\* a buffer that was not empty, a record with logger name and location
C10_Witness ==
    /\ pc[1] = "done"
    /\ result[1].kind = "ok"
    /\ dest0[1] # <<>>
    /\ rec[1].logger_name.some
    /\ rec[1].source_location.some

C3_NoSecondFlush ==
    /\ [](flushStarts <= 1)
    /\ [][(crashState = "Handling" /\ fatalEvents' > fatalEvents) =>
            /\ hpc' = "terminating"
            /\ flushStarts' = flushStarts
            /\ written' = written
            /\ buffered' = buffered
            /\ todo' = todo]_vars

\* a flush cut short by a fault, followed by a further fault on the way out
C3_Witness ==
    /\ hpc = "dead"
    /\ fatalEvents >= 3
    /\ flushStarts = 1
    /\ todo # {}
    /\ accepted # <<>>

\* C4: once the handler has been entered from state Installed, the process
\* reaches termination, however often the handler itself faults.
C4_HandlerTerminates ==
    (crashState = "Handling") ~> (hpc = "dead")

\* a process that terminated after its flush faulted
C4_Witness ==
    /\ hpc = "dead"
    /\ crashState = "Terminated"
    /\ fatalEvents >= 2
    /\ todo # {}

\* C5: when the handler has finished, the original disposition is back in
\* place and the termination cause seen from outside is the original fatal
\* condition, whether the flush was performed or skipped.
C5_OriginalCausePreserved ==
    crashState = "Terminated" =>
        /\ hook = OrigHook
        /\ exitCause = cause
        /\ reraises = 1

\* a skipped flush: the nested fault was of another kind than the original
C5_Witness ==
    /\ crashState = "Terminated"
    /\ fatalEvents >= 2
    /\ lastFatal # cause
    /\ todo # {}

\* C6: however often install is called, the state is Installed as after
\* one call, the remembered disposition is the one from before the first
\* call, and a later fatal event gives one flush and one re-raise.
C6_InstallIdempotent ==
    /\ installs >= 1 =>
          /\ crashState # "Uninstalled"
          /\ prevHook = Some(OrigHook)
    /\ crashState = "Installed" => hook = CrashHook
    /\ (crashState = "Terminated" /\ fatalEvents = 1) =>
          /\ flushStarts = 1
          /\ reraises = 1
          /\ hook = OrigHook

\* two installs, then one fatal event handled to the end
C6_Witness ==
    /\ installs >= 2
    /\ crashState = "Terminated"
    /\ fatalEvents = 1

IsPrefix(p, s) == Len(p) <= Len(s) /\ SubSeq(s, 1, Len(p)) = p

\* whether the write chosen to fail in the call of thread t was executed
WriteFailed(t) ==
    \/ pc[t] = "done" /\ fault[t].at \in {1, 3, 5}
    \/ pc[t] = "done" /\ fault[t].at = 2 /\ rec[t].logger_name.some
    \/ pc[t] = "done" /\ fault[t].at = 4 /\ rec[t].source_location.some
    \/ pc[t] = "eol_done" /\ fault[t].at = 6

\* C12: a call in which a write failed returns an error, and after the
\* failed write BasicFormatter::format writes nothing: the buffer holds the
\* segments before the failing one and less than the whole failing segment.
C12_WriteErrorSurfaces ==
    \A t \in DOMAIN pc :
        /\ WriteFailed(t) => result[t].kind = "err"
        /\ (pc[t] \in {"done", "eol_done"} /\ result[t].kind \in {"ok", "unit"})
              => ~WriteFailed(t)
        /\ (WriteFailed(t) /\ pc[t] = "done") =>
              LET segs == Layout(rec[t], time[t])
              IN  /\ IsPrefix(Appended(t), Flatten(segs))
                  /\ Len(Appended(t)) < Len(Flatten(SubSeq(segs, 1, fault[t].at)))

\* the write of the level failed after the logger name had been written
C12_Witness ==
    /\ pc[1] = "done"
    /\ fault[1].at = 3
    /\ fault[1].cut = 2
    /\ rec[1].logger_name.some
    /\ result[1].kind = "err"

\* C13: Eol::format, when it succeeds, has appended exactly the line
\* terminator of the build target to what the buffer held; what the buffer
\* held stays its prefix in every case, and the call leaves the record and
\* the pattern context as they were.
C13_EolAppendsTerminator ==
    /\ [](\A t \in DOMAIN pc :
            /\ (pc[t] = "eol_done" /\ result[t].kind = "unit") =>
                  dest[t] = dest0[t] \o
                      (IF platform = "windows" THEN <<"\r", "\n">> ELSE <<"\n">>)
            /\ pc[t] \in {"eol", "eol_done"} => IsPrefix(dest0[t], dest[t]))
    /\ [][\A t \in DOMAIN pc :
            (pc[t] = "eol" /\ pc'[t] = "eol_done") =>
                /\ rec'[t] = rec[t]
                /\ ctx'[t] = ctx[t]
                /\ dest0'[t] = dest0[t]]_vars

\* a Windows build, a buffer that was not empty, a record with a logger name
C13_Witness ==
    /\ pc[1] = "eol_done"
    /\ result[1].kind = "unit"
    /\ platform = "windows"
    /\ dest0[1] # <<>>
    /\ rec[1].logger_name.some
    /\ ctx[1] = "ctx_b"

\* C14 as stated: while a format call holds the lock of the time cache it
\* has run no UTC-to-local conversion and has written nothing into its
\* buffer, whether the cache was empty, held another second or held the
\* second of the record.
C14_LockOnlyForAssignments ==
    \A t \in DOMAIN pc :
        lockHolder = t =>
            /\ ~conv[t]
            /\ dest[t] = dest0[t]

\* the breakdown of a whole second by a conversion that uses no cache
SecondBreakdown(secs) ==
    TimeFrom(ToLocal([days |-> secs[1], sod |-> secs[2], nanos |-> 0]))

\* two breakdowns agree in year, month, day, hour, minute and second
SameToSecond(a, b) ==
    /\ a.year = b.year
    /\ a.month = b.month
    /\ a.day = b.day
    /\ a.hour = b.hour
    /\ a.minute = b.minute
    /\ a.second = b.second

\* a get step of thread t
GetStep(t) == pc[t] = "get" /\ pc'[t] = "clone"

\* the get of thread t finds the second of its record in the cache
Hit(t) == cache.some /\ cache.val.last_secs = timestamp(rec[t].time)

\* C15: after every get the cache is populated, its last_secs is the whole
\* second of the timestamp passed to that get, and its year to second are
\* the local breakdown of the stored second; a get that finds no cache or
\* another second (later or earlier) stores the full conversion of the
\* incoming timestamp together with its second.
C15_CacheAfterGet ==
    /\ [](\A t \in DOMAIN pc :
            pc[t] = "clone" =>
                /\ cache.some
                /\ cache.val.last_secs = timestamp(rec[t].time))
    /\ [](cache.some =>
            SameToSecond(cache.val.local_time, SecondBreakdown(cache.val.last_secs)))
    /\ [][\A t \in DOMAIN pc :
            (GetStep(t) /\ ~Hit(t)) =>
                cache' = Some([last_secs  |-> timestamp(rec[t].time),
                               local_time |-> TimeFrom(ToLocal(rec[t].time))])]_vars

\* a get for a second earlier than the cached one: the clock moved backward
C15_Witness ==
    /\ pc[1] = "clone"
    /\ found[1] = Some(LocalTimeCacher_cache(T_c))
    /\ rec[1].time = T_a
    /\ cache.val.last_secs = timestamp(T_a)

\* C16: a get that finds the second of its record in the cache leaves
\* last_secs and year to second as they were and sets millisecond to
\* (nanoseconds mod 1_000_000_000) / 1_000_000 of the incoming timestamp;
\* the timestamp segment written after such a get differs from the one of
\* the cached reading in the three millisecond digits at most.
C16_HitPatchesMillisecondOnly ==
    /\ [][\A t \in DOMAIN pc :
            (GetStep(t) /\ Hit(t)) =>
                /\ cache'.some
                /\ cache'.val.last_secs = cache.val.last_secs
                /\ SameToSecond(cache'.val.local_time, cache.val.local_time)
                /\ cache'.val.local_time.millisecond =
                      (rec[t].time.nanos % 1000000000) \div 1000000]_vars
    /\ [](\A t \in DOMAIN pc :
            (/\ pc[t] = "write"
             /\ found[t].some
             /\ found[t].val.last_secs = timestamp(rec[t].time)) =>
                LET a == TimestampSegment(found[t].val.local_time)
                    b == TimestampSegment(time[t])
                IN  /\ Len(a) = Len(b)
                    /\ \A i \in 1..Len(a) :
                          a[i] # b[i] => i \in (Len(a) - 5)..(Len(a) - 3))

\* two records of one second with different milliseconds, the second one
\* about to be written
C16_Witness ==
    /\ pc[1] = "write"
    /\ found[1] = Some(LocalTimeCacher_cache(T_a))
    /\ rec[1].time = T_b
    /\ time[1].millisecond = 500
    /\ time[1].second = 45

\* C17: a format call takes the lock of the time cache once, at its lock
\* statement, and gives it up when get has returned, before its first write:
\* the thread holding the lock is inside get and has written nothing, a
\* thread that is writing, has returned (with or without error) or has
\* not yet locked does not hold it, and a thread waiting for the lock finds
\* it free or held by a thread that is inside get and can go on, so that no
\* interleaving of format calls blocks for good.
C17_LockReleasedBeforeWrite ==
    /\ [](\A t \in DOMAIN pc :
            /\ lockHolder = t =>
                  /\ pc[t] \in {"get", "clone"}
                  /\ dest[t] = dest0[t]
                  /\ result[t] = NoResult
            /\ pc[t] \in {"idle", "lock", "write", "done"} => lockHolder # t
            /\ pc[t] = "lock" =>
                  \/ lockHolder = NoThread
                  \/ /\ lockHolder \in DOMAIN pc
                     /\ lockHolder # t
                     /\ pc[lockHolder] \in {"get", "clone"})
    /\ [][\A t \in DOMAIN pc :
            /\ (lockHolder # t /\ lockHolder' = t) =>
                  /\ lockHolder = NoThread
                  /\ pc[t] = "lock"
                  /\ pc'[t] = "get"
            /\ (lockHolder = t /\ lockHolder' # t) =>
                  /\ lockHolder' = NoThread
                  /\ pc[t] = "clone"
                  /\ pc'[t] = "write"]_vars

\* one call has returned a write error and another thread has since taken
\* the lock and run get on the cache the first call left
C17_Witness ==
    \E t, u \in DOMAIN pc :
        /\ t # u
        /\ pc[t] = "done"
        /\ result[t] = Err
        /\ lockHolder = u
        /\ pc[u] = "clone"
        /\ found[u].some

\* the length of the segments written in full before write! number n
LenBefore(r, t, n) == Len(Flatten(SubSeq(Layout(r, t), 1, n - 1)))

\* C18: from the call to the return of BasicFormatter::format, what the
\* buffer held before the call is a prefix of the buffer; a call that
\* returns Ok has appended the whole line, and a call that returns an error
\* has appended the segments before the failing write in full (and a part
\* of the failing one at most), with the time cache already holding the
\* second of the record.
C18_OnlyAppends ==
    \A t \in DOMAIN pc :
        /\ pc[t] \in {"lock", "get", "clone", "write", "done"} =>
              IsPrefix(dest0[t], dest[t])
        /\ (pc[t] = "done" /\ result[t].kind = "ok") =>
              dest[t] = dest0[t] \o Flatten(Layout(rec[t], time[t]))
        /\ (pc[t] = "done" /\ result[t].kind = "err") =>
              /\ IsPrefix(Appended(t), Flatten(Layout(rec[t], time[t])))
              /\ Len(Appended(t)) >= LenBefore(rec[t], time[t], fault[t].at)
              /\ cache.some
              /\ cache.val.last_secs = timestamp(rec[t].time)

\* a buffer that was not empty, a call that failed in the payload write
\* after the timestamp, the logger name, the level and the source location
C18_Witness ==
    /\ pc[1] = "done"
    /\ result[1] = Err
    /\ fault[1].at = 5
    /\ dest0[1] # <<>>
    /\ rec[1].logger_name.some
    /\ rec[1].source_location.some
    /\ Len(dest[1]) > Len(dest0[1]) + 27

\* nanosecond values at the edges: whole seconds, the last nanosecond of a
\* second, leap-second representations, the largest value below 2^31
NanosecondSamples ==
    {0, 999999, 1000000, 999999999, 1000000000, 1000999999, 1999999999,
     2000000000, 2147483647}

IsDigit(ch) == \E i \in 1..Len(DigitChars) : DigitChars[i] = ch

\* C19: the millisecond that nanosecond_to_millisecond yields is within
\* 0..999, for plain and for leap-second nanosecond values, in the breakdown
\* a call obtains after a full conversion and after a patch of the cached
\* one, and in the cache; the timestamp segment written from it ends in a
\* dot, exactly three digits and "] [".
C19_MillisecondThreeDigits ==
    /\ \A ns \in NanosecondSamples : nanosecond_to_millisecond(ns) \in 0..999
    /\ cache.some => cache.val.local_time.millisecond \in 0..999
    /\ \A t \in DOMAIN pc :
          /\ pc[t] \in {"write", "done"} =>
                /\ time[t].millisecond \in 0..999
                /\ time[t].millisecond =
                      (rec[t].time.nanos % 1000000000) \div 1000000
          /\ (pc[t] = "done" /\ result[t].kind = "ok") =>
                LET seg == TimestampSegment(time[t])
                    n   == Len(seg)
                IN  /\ n = Len(FmtSigned(time[t].year)) + 23
                    /\ SubSeq(Appended(t), 1, n) = seg
                    /\ seg[n - 6] = "."
                    /\ IsDigit(seg[n - 5])
                    /\ IsDigit(seg[n - 4])
                    /\ IsDigit(seg[n - 3])
                    /\ SubSeq(seg, n - 2, n) = <<"]", " ", "[">>

\* a record inside a leap second whose second was already cached: the
\* millisecond comes from the patch of the cached breakdown
C19_Witness ==
    /\ pc[1] = "write"
    /\ found[1].some
    /\ found[1].val.last_secs = timestamp(rec[1].time)
    /\ rec[1].time.nanos >= 1000000000
    /\ time[1].millisecond = 500

====
